---- MODULE Spec2Model ----
(***************************************************************************)
(* Model of server.py: the FastAPI boundary layer that validates a raw     *)
(* point-cloud payload, runs the stdin_planes engine as a child process    *)
(* and turns its JSON output into the HTTP response.                       *)
(*                                                                         *)
(* Texts (str) are sequences of strings.  A character of data is a string  *)
(* of length one; the literal fragments of an f-string are kept as one     *)
(* element each.  Bytes are integers 0..255.                               *)
(***************************************************************************)
EXTENDS Integers, Sequences, FiniteSets, TLC

VARIABLES
    exe_exists,   \* os.path.exists(EXECUTABLE_PATH), a fact of the file system
    pc,           \* per request: position of the detect_planes coroutine
    req,          \* per request: width, height, query_params, values, body
    client,       \* per request: is the calling client still connected
    loop,         \* the request whose handler holds the event loop in a blocking call, or 0
    child,        \* per request: the engine process started by Popen
    spawned,      \* per request: number of Popen calls made
    response,     \* per request: the responses produced, in order
    probes        \* number of GET / requests answered

vars == <<exe_exists, pc, req, client, loop, child, spawned, response, probes>>

----------------------------------------------------------------------------
(* Bounds of the model *)

NumReq == 2         \* concurrent POST /planes requests
MaxProbes == 2      \* GET / requests answered
MaxDim == 2         \* width and height range over -1..MaxDim
MaxRecords == 2     \* plane records in a stub engine's output

Reqs == 1..NumReq

----------------------------------------------------------------------------
(* Text helpers *)

Digit == <<"0", "1", "2", "3", "4", "5", "6", "7", "8", "9">>

RECURSIVE NatToStr(_)
NatToStr(n) ==
    IF n < 10 THEN <<Digit[n + 1]>>
    ELSE NatToStr(n \div 10) \o <<Digit[(n % 10) + 1]>>

\* str(int)
IntToStr(n) == IF n < 0 THEN <<"-">> \o NatToStr(-n) ELSE NatToStr(n)

\* s[:n]
Slice(s, n) == SubSeq(s, 1, IF Len(s) < n THEN Len(s) ELSE n)

\* sub in s
Contains(s, sub) ==
    \E i \in 0..(Len(s) - Len(sub)) : SubSeq(s, i + 1, i + Len(sub)) = sub

RECURSIVE Pow10(_)
Pow10(e) == IF e = 0 THEN 1 ELSE 10 * Pow10(e - 1)

RECURSIVE PadZeros(_, _)
PadZeros(s, w) == IF Len(s) >= w THEN s ELSE PadZeros(<<"0">> \o s, w)

----------------------------------------------------------------------------
(* Query parameter values.  A value is None, an int n, or a float m / 10^e *)
(* with e decimals (no trailing zero).                                     *)

None == [t |-> "none", m |-> 0, e |-> 0]
PyInt(n) == [t |-> "int", m |-> n, e |-> 0]
PyFloat(m, e) == [t |-> "float", m |-> m, e |-> e]

\* str(float): repr always shows a fractional part ("60.0", "0.5")
StrFloat(v) ==
    LET a == IF v.m < 0 THEN -v.m ELSE v.m
        sign == IF v.m < 0 THEN <<"-">> ELSE <<>>
    IN  IF v.e = 0 THEN sign \o NatToStr(a) \o <<".", "0">>
        ELSE sign \o NatToStr(a \div Pow10(v.e)) \o <<".">>
                  \o PadZeros(NatToStr(a % Pow10(v.e)), v.e)

\* str(value) of a query parameter
Str(v) == IF v.t = "float" THEN StrFloat(v) ELSE IntToStr(v.m)

\* The six optional tuning parameters, in the order of the handler's signature
OptNames == <<"min_normal_diff", "max_dist", "outlier_ratio",
              "min_num_points", "nr_neighbors", "max_planes">>

OptNameSet == {OptNames[i] : i \in 1..Len(OptNames)}

\* The value a client sends for each parameter when it sends one (typed by
\* the handler's signature: three floats, three ints)
SentValue(name) ==
    CASE name = "min_normal_diff" -> PyFloat(60, 0)
      [] name = "max_dist"        -> PyFloat(75, 0)
      [] name = "outlier_ratio"   -> PyFloat(5, 1)
      [] name = "min_num_points"  -> PyInt(30)
      [] name = "nr_neighbors"    -> PyInt(75)
      [] name = "max_planes"      -> PyInt(3)

\* FastAPI's binding of the query string to the handler's arguments: a
\* parameter absent from the query string takes its default, Query(None)
BoundValues(keys) ==
    [n \in OptNameSet |-> IF n \in keys THEN SentValue(n) ELSE None]

EXECUTABLE_PATH == "build/stdin_planes"

----------------------------------------------------------------------------
(* Bytes and bytes.decode()                                                *)

\* The printable ASCII characters, code 32 (space) to 126 (~), in code order
\* (code 96, the grave accent, is written by name: a TLA+ string cannot hold it)
Ascii == <<
    " ", "!", "\"", "#", "$", "%", "&", "'", "(", ")", "*", "+", ",", "-", ".", "/",
    "0", "1", "2", "3", "4", "5", "6", "7", "8", "9", ":", ";", "<", "=", ">", "?",
    "@", "A", "B", "C", "D", "E", "F", "G", "H", "I", "J", "K", "L", "M", "N", "O",
    "P", "Q", "R", "S", "T", "U", "V", "W", "X", "Y", "Z", "[", "\\", "]", "^", "_",
    "GRAVE", "a", "b", "c", "d", "e", "f", "g", "h", "i", "j", "k", "l", "m", "n", "o",
    "p", "q", "r", "s", "t", "u", "v", "w", "x", "y", "z", "{", "|", "}", "~">>

NEWLINE == "\n"

\* The character of an ASCII byte (the control characters other than the
\* newline do not occur in the model's byte strings)
Chr(b) == IF b = 10 THEN NEWLINE ELSE Ascii[b - 31]

\* bytes.decode() of the default codec, utf-8, errors="strict": one-byte
\* sequences (ASCII), the two-byte sequences C2..DF 80..BF (decoded to the name
\* of the code point's block, "U+0080-07FF"), and UnicodeDecodeError at the
\* first byte that starts no sequence (a lone continuation byte, F8..FF) or
\* starts a truncated one.  Longer sequences are outside the byte strings of
\* the model.
IsLead(b, i) == b[i] >= 194 /\ b[i] <= 223
IsContinuation(b, i) == b[i] >= 128 /\ b[i] <= 191

\* the byte at i is part of a well-formed sequence
WellFormedAt(b, i) ==
    \/ b[i] < 128
    \/ IsLead(b, i) /\ i + 1 <= Len(b) /\ IsContinuation(b, i + 1)
    \/ IsContinuation(b, i) /\ i > 1 /\ IsLead(b, i - 1)

\* the characters decoded from the bytes lo..hi: one for each byte that
\* starts a sequence
RECURSIVE DecodeRange(_, _, _)
DecodeRange(b, lo, hi) ==
    IF lo > hi THEN <<>>
    ELSE IF lo = hi
         THEN IF b[lo] < 128 THEN <<Chr(b[lo])>>
              ELSE IF IsLead(b, lo) THEN <<"U+0080-07FF">>
              ELSE <<>>
    ELSE LET mid == (lo + hi) \div 2
         IN  DecodeRange(b, lo, mid) \o DecodeRange(b, mid + 1, hi)

Decode(b) ==
    LET bad == {i \in 1..Len(b) : ~WellFormedAt(b, i)}
    IN  IF bad = {} THEN [ok |-> TRUE, text |-> DecodeRange(b, 1, Len(b)), pos |-> 0]
        ELSE [ok |-> FALSE, text |-> <<>>,
              pos |-> (CHOOSE i \in bad : \A k \in bad : i <= k) - 1]

\* str(UnicodeDecodeError)
StrUnicodeDecodeError(d) ==
    <<"'utf-8' codec can't decode byte in position ">> \o IntToStr(d.pos)

\* The ASCII encoding of a text of ASCII characters (what an engine writes)
Ord(c) == IF c = NEWLINE THEN 10 ELSE 31 + (CHOOSE k \in 1..Len(Ascii) : Ascii[k] = c)

Encode(text) == [k \in 1..Len(text) |-> Ord(text[k])]

----------------------------------------------------------------------------
(* json.loads.  The values: None (null), PyInt, PyFloat, and the three     *)
(* below.  The grammar is JSON's without string escapes, exponents and the *)
(* literals true and false, which no engine output of the model uses.      *)

JStr(cs) == [t |-> "str", s |-> cs]
JList(items) == [t |-> "list", items |-> items]
JDict(keys, vals) == [t |-> "dict", keys |-> keys, vals |-> vals]

QUOTE == "\""

IsDigit(c) == c \in {Digit[k] : k \in 1..10}
DigitValue(c) == (CHOOSE k \in 1..10 : Digit[k] = c) - 1

\* A decoding step: ok with the value v and the index i of the next
\* character, or a JSONDecodeError msg at the (1-based) index i
Parsed(v, i) == [ok |-> TRUE, v |-> v, i |-> i, msg |-> ""]
ParseError(msg, i) == [ok |-> FALSE, v |-> None, i |-> i, msg |-> msg]

At(s, i, c) == i <= Len(s) /\ s[i] = c

RECURSIVE SkipWs(_, _)
SkipWs(s, i) ==
    IF i <= Len(s) /\ s[i] \in {" ", NEWLINE} THEN SkipWs(s, i + 1) ELSE i

RECURSIVE ScanDigits(_, _)
ScanDigits(s, i) ==
    IF i <= Len(s) /\ IsDigit(s[i]) THEN ScanDigits(s, i + 1) ELSE i

\* the number written by the digits s[a..b-1]
RECURSIVE DigitsValue(_, _, _)
DigitsValue(s, a, b) ==
    IF b <= a THEN 0 ELSE 10 * DigitsValue(s, a, b - 1) + DigitValue(s[b - 1])

\* float(m / 10^e) without trailing zero decimals
RECURSIVE Normalize(_, _)
Normalize(m, e) ==
    IF e > 0 /\ m % 10 = 0 THEN Normalize(m \div 10, e - 1) ELSE PyFloat(m, e)

\* NUMBER_RE of json.scanner: -?(0|[1-9][0-9]*)(\.[0-9]+)?
\* the digits s[j..k-1], the point at k and the decimals s[k+1..f-1]
MakeFloat(s, j, k, f) ==
    Parsed(Normalize(DigitsValue(s, j, k) * Pow10(f - (k + 1))
                     + DigitsValue(s, k + 1, f), f - (k + 1)), f)

WithFraction(s, j, k) ==
    IF At(s, k, ".") /\ k + 1 <= Len(s) /\ IsDigit(s[k + 1])
    THEN MakeFloat(s, j, k, ScanDigits(s, k + 1))
    ELSE Parsed(PyInt(DigitsValue(s, j, k)), k)

ParseUnsigned(s, j) ==
    IF ~(j <= Len(s) /\ IsDigit(s[j])) THEN ParseError("Expecting value", j)
    ELSE WithFraction(s, j, IF s[j] = "0" THEN j + 1 ELSE ScanDigits(s, j))

Negated(r, i) ==
    IF r.ok THEN Parsed([r.v EXCEPT !.m = -@], r.i) ELSE ParseError("Expecting value", i)

ParseNumber(s, i) ==
    IF At(s, i, "-") THEN Negated(ParseUnsigned(s, i + 1), i) ELSE ParseUnsigned(s, i)

\* index of the next double quote at or after i, or 0
RECURSIVE FindQuote(_, _)
FindQuote(s, i) ==
    IF i > Len(s) THEN 0 ELSE IF s[i] = QUOTE THEN i ELSE FindQuote(s, i + 1)

\* s[i] is the opening quote, q the index of the closing one or 0
CloseString(s, i, q) ==
    IF q = 0 THEN ParseError("Unterminated string starting at", i)
    ELSE Parsed(JStr(SubSeq(s, i + 1, q - 1)), q + 1)

ParseString(s, i) == CloseString(s, i, FindQuote(s, i + 1))

KeyIndex(keys, key) ==
    IF \E k \in 1..Len(keys) : keys[k] = key
    THEN CHOOSE k \in 1..Len(keys) : keys[k] = key
    ELSE 0

PutAt(keys, vals, key, v, k) ==
    IF k = 0 THEN JDict(Append(keys, key), Append(vals, v))
    ELSE JDict(keys, [vals EXCEPT ![k] = v])

\* d[key] = v on a dict: a repeated key keeps its place and takes the new value
DictPut(keys, vals, key, v) == PutAt(keys, vals, key, v, KeyIndex(keys, key))

RECURSIVE ParseValue(_, _)
RECURSIVE ParseItems(_, _, _)
RECURSIVE ParseMembers(_, _, _)

\* JSONArray: after a value, at k, "]" ends the list and "," goes on
ItemEnd(s, k, acc) ==
    IF At(s, k, "]") THEN Parsed(JList(acc), k + 1)
    ELSE IF At(s, k, ",") THEN ParseItems(s, SkipWs(s, k + 1), acc)
    ELSE ParseError("Expecting ',' delimiter", k)

AfterItem(s, r, acc) ==
    IF ~r.ok THEN r ELSE ItemEnd(s, SkipWs(s, r.i), Append(acc, r.v))

ParseItems(s, j, acc) == AfterItem(s, ParseValue(s, j), acc)

\* JSONObject: after a member, at k, "}" ends the dict and "," goes on
MemberEnd(s, k, d) ==
    IF At(s, k, "}") THEN Parsed(d, k + 1)
    ELSE IF At(s, k, ",") THEN ParseMembers(s, SkipWs(s, k + 1), d)
    ELSE ParseError("Expecting ',' delimiter", k)

AfterMember(s, r, name, d) ==
    IF ~r.ok THEN r
    ELSE MemberEnd(s, SkipWs(s, r.i), DictPut(d.keys, d.vals, name, r.v))

Colon(s, c, name, d) ==
    IF ~At(s, c, ":") THEN ParseError("Expecting ':' delimiter", c)
    ELSE AfterMember(s, ParseValue(s, SkipWs(s, c + 1)), name, d)

AfterName(s, key, d) ==
    IF ~key.ok THEN key ELSE Colon(s, SkipWs(s, key.i), key.v.s, d)

ParseMembers(s, j, d) ==
    IF ~At(s, j, QUOTE)
    THEN ParseError("Expecting property name enclosed in double quotes", j)
    ELSE AfterName(s, ParseString(s, j), d)

OpenObject(s, j) ==
    IF At(s, j, "}") THEN Parsed(JDict(<<>>, <<>>), j + 1)
    ELSE ParseMembers(s, j, JDict(<<>>, <<>>))

OpenArray(s, j) ==
    IF At(s, j, "]") THEN Parsed(JList(<<>>), j + 1) ELSE ParseItems(s, j, <<>>)

\* scan_once of json.scanner
ParseValue(s, i) ==
    IF i > Len(s) THEN ParseError("Expecting value", i)
    ELSE IF s[i] = QUOTE THEN ParseString(s, i)
    ELSE IF s[i] = "{" THEN OpenObject(s, SkipWs(s, i + 1))
    ELSE IF s[i] = "[" THEN OpenArray(s, SkipWs(s, i + 1))
    ELSE IF i + 3 <= Len(s) /\ SubSeq(s, i, i + 3) = <<"n", "u", "l", "l">>
         THEN Parsed(None, i + 4)
    ELSE ParseNumber(s, i)

ExtraData(s, r, end) ==
    IF end <= Len(s) THEN ParseError("Extra data", end) ELSE r

WholeText(s, r) == IF ~r.ok THEN r ELSE ExtraData(s, r, SkipWs(s, r.i))

\* json.loads(s): JSONDecoder.decode, one value between white space
Loads(s) == WholeText(s, ParseValue(s, SkipWs(s, 1)))

\* str(JSONDecodeError): "msg: line L column C (char P)", P counted from 0
StrJSONDecodeError(s, r) ==
    LET pos == r.i - 1
        nls == {k \in 1..pos : s[k] = NEWLINE}
        lineno == Cardinality(nls) + 1
        colno == IF nls = {} THEN pos + 1
                 ELSE pos - (CHOOSE k \in nls : \A l \in nls : l <= k) + 1
    IN  <<r.msg, ": line ">> \o IntToStr(lineno) \o <<" column ">> \o IntToStr(colno)
            \o <<" (char ">> \o IntToStr(pos) \o <<")">>

----------------------------------------------------------------------------
(* class Plane(BaseModel) and the response_model List[Plane]               *)

\* The fields of Plane in declaration order: List[float] x 4, float, int.
\* key is the field's name as the characters of a JSON member name.
PlaneFields == <<
    [name |-> "normal", type |-> "list",
     key |-> <<"n", "o", "r", "m", "a", "l">>],
    [name |-> "center", type |-> "list",
     key |-> <<"c", "e", "n", "t", "e", "r">>],
    [name |-> "basisU", type |-> "list",
     key |-> <<"b", "a", "s", "i", "s", "U">>],
    [name |-> "basisV", type |-> "list",
     key |-> <<"b", "a", "s", "i", "s", "V">>],
    [name |-> "distanceFromOrigin", type |-> "float",
     key |-> <<"d", "i", "s", "t", "a", "n", "c", "e", "F", "r", "o", "m", "O", "r", "i", "g", "i", "n">>],
    [name |-> "inlierCount", type |-> "int",
     key |-> <<"i", "n", "l", "i", "e", "r", "C", "o", "u", "n", "t">>]>>

\* the whole text cs is one number literal
WholeNumber(cs, r) ==
    IF r.ok /\ r.i = Len(cs) + 1 THEN r ELSE ParseError("not a number", 1)

NumberOfString(cs) == WholeNumber(cs, ParseNumber(cs, 1))

Valid(v) == [ok |-> TRUE, v |-> v]
Invalid == [ok |-> FALSE, v |-> None]

CoerceFloat(n) == IF n.ok THEN Valid(PyFloat(n.v.m, n.v.e)) ELSE Invalid
CoerceInt(n) == IF n.ok /\ n.v.t = "int" THEN Valid(n.v) ELSE Invalid

\* pydantic's validation of a float field (lax mode): a float, an int, or a
\* string that is a number
AsFloat(v) ==
    IF v.t = "float" THEN Valid(v)
    ELSE IF v.t = "int" THEN Valid(PyFloat(v.m, 0))
    ELSE IF v.t = "str" THEN CoerceFloat(NumberOfString(v.s))
    ELSE Invalid

\* pydantic's validation of an int field (lax mode): an int, a float without
\* fractional part, or a string that is an integer
AsInt(v) ==
    IF v.t = "int" THEN Valid(v)
    ELSE IF v.t = "float" /\ v.e = 0 THEN Valid(PyInt(v.m))
    ELSE IF v.t = "str" THEN CoerceInt(NumberOfString(v.s))
    ELSE Invalid

\* AllValid that skips the invalid items instead of failing
AllValid_m(results) ==
    LET kept == SelectSeq(results, LAMBDA x : x.ok)
    IN  Valid([k \in 1..Len(kept) |-> kept[k].v])

\* a list is valid when each of its items is, and keeps their order
AllValid(results) ==
    IF \A k \in 1..Len(results) : results[k].ok
    THEN Valid([k \in 1..Len(results) |-> results[k].v])
    ELSE Invalid

\* List[float]: any length
AsFloatList(v) ==
    IF v.t = "list" THEN AllValid([k \in 1..Len(v.items) |-> AsFloat(v.items[k])])
    ELSE Invalid

AsField(type, v) ==
    CASE type = "list"  -> AsFloatList(v)
      [] type = "float" -> AsFloat(v)
      [] type = "int"   -> AsInt(v)

\* the field of the dict v whose member is at index k of v (0: missing)
FieldResult(v, field, k) == IF k = 0 THEN Invalid ELSE AsField(field.type, v.vals[k])

MakePlane(results) ==
    IF \A f \in 1..Len(results) : results[f].ok
    THEN Valid([normal |-> results[1].v, center |-> results[2].v,
                basisU |-> results[3].v, basisV |-> results[4].v,
                distanceFromOrigin |-> results[5].v, inlierCount |-> results[6].v])
    ELSE Invalid

\* Plane: a dict with the six fields, each valid; other members are ignored
AsPlane(v) ==
    IF v.t = "dict"
    THEN MakePlane([f \in 1..Len(PlaneFields) |->
                      FieldResult(v, PlaneFields[f],
                                  KeyIndex(v.keys, PlaneFields[f].key))])
    ELSE Invalid

\* List[Plane]: what FastAPI makes of the handler's return value; the
\* records keep their order
AsPlaneList(v) ==
    IF v.t = "list" THEN AllValid([k \in 1..Len(v.items) |-> AsPlane(v.items[k])])
    ELSE Invalid

----------------------------------------------------------------------------
(* Responses *)

\* HTTPException(status_code, detail), answered as {"detail": detail}
HTTPException(status_code, detail) ==
    [kind |-> "error", status_code |-> status_code, detail |-> detail, planes |-> <<>>]

\* str(HTTPException): "status_code: detail"
StrHTTPException(e) == IntToStr(e.status_code) \o <<": ">> \o e.detail

\* 200 with the validated plane list
PlanesResponse(planes) ==
    [kind |-> "planes", status_code |-> 200, detail |-> <<>>, planes |-> planes]

\* FastAPI's answer when the return value fails the response_model: the
\* ResponseValidationError is no HTTPException and ends as a plain 500
InternalServerError ==
    [kind |-> "server_error", status_code |-> 500,
     detail |-> <<"Internal Server Error">>, planes |-> <<>>]

----------------------------------------------------------------------------
(* detect_planes: the synchronous parts of the handler *)

\* expected_bytes without the three coordinates of a point
expected_bytes_m(width, height) == 4 * width * height

\* line 86
expected_bytes(width, height) == 4 * 3 * width * height

\* lines 87-92
SizeMismatch(data_size, expected) ==
    HTTPException(400, <<"Binary data size mismatch: got ">> \o IntToStr(data_size)
                       \o <<" bytes, expected ">> \o IntToStr(expected) \o <<" bytes">>)

\* lines 95-99
ExecutableNotFound ==
    HTTPException(500, <<"C++ executable not found at ", EXECUTABLE_PATH,
                         ". Make sure to build the project first.">>)

\* lines 64-72
param_provided(query_params) == [n \in OptNameSet |-> n \in query_params]

\* one "if param_provided[name] and value is not None: command.extend(...)"
OptionalArg(provided, values, name, flag) ==
    IF provided[name] /\ values[name] # None
    THEN << <<flag>>, Str(values[name]) >>
    ELSE <<>>

\* Command with a counter of the module, shared by all requests, added to
\* the width
Command_shared(width, height, provided, values) ==
    << <<EXECUTABLE_PATH>>, IntToStr(width + probes), IntToStr(height) >>
    \o OptionalArg(provided, values, "min_normal_diff", "--min-normal-diff")
    \o OptionalArg(provided, values, "max_dist", "--max-dist")
    \o OptionalArg(provided, values, "outlier_ratio", "--outlier-ratio")
    \o OptionalArg(provided, values, "min_num_points", "--min-num-points")
    \o OptionalArg(provided, values, "nr_neighbors", "--nr-neighbors")
    \o OptionalArg(provided, values, "max_planes", "--max-planes")

\* Command with --max-dist ahead of --min-normal-diff
Command_m(width, height, provided, values) ==
    << <<EXECUTABLE_PATH>>, IntToStr(width), IntToStr(height) >>
    \o OptionalArg(provided, values, "max_dist", "--max-dist")
    \o OptionalArg(provided, values, "min_normal_diff", "--min-normal-diff")
    \o OptionalArg(provided, values, "outlier_ratio", "--outlier-ratio")
    \o OptionalArg(provided, values, "min_num_points", "--min-num-points")
    \o OptionalArg(provided, values, "nr_neighbors", "--nr-neighbors")
    \o OptionalArg(provided, values, "max_planes", "--max-planes")

\* lines 103-122: the argument vector, one text per argument
Command(width, height, provided, values) ==
    << <<EXECUTABLE_PATH>>, IntToStr(width), IntToStr(height) >>
    \o OptionalArg(provided, values, "min_normal_diff", "--min-normal-diff")
    \o OptionalArg(provided, values, "max_dist", "--max-dist")
    \o OptionalArg(provided, values, "outlier_ratio", "--outlier-ratio")
    \o OptionalArg(provided, values, "min_num_points", "--min-num-points")
    \o OptionalArg(provided, values, "nr_neighbors", "--nr-neighbors")
    \o OptionalArg(provided, values, "max_planes", "--max-planes")

\* The end of a block of the handler: a returned value, or a raised
\* exception e, of which the except clauses only use str(e)
Return(v) == [raised |-> FALSE, str |-> <<>>, value |-> v]
Raise(str) == [raised |-> TRUE, str |-> str, value |-> None]

\* the characters of the output quoted in a ResultDecodeFailed detail
PrefixChars == 200

TypeName(v) ==
    CASE v.t = "int" -> "int" [] v.t = "float" -> "float" [] v.t = "none" -> "NoneType"
      [] OTHER -> v.t

\* len(planes) is defined for a list, a dict and a str
HasLen(v) == v.t \in {"list", "dict", "str"}

\* JsonOutcome quoting the whole output instead of stdout_text[:200]
JsonOutcome_m(stdout_text, r) ==
    IF r.ok
    THEN IF HasLen(r.v) THEN Return(r.v)
         ELSE Raise(<<"object of type '", TypeName(r.v), "' has no len()">>)
    ELSE Raise(StrHTTPException(HTTPException(500,
             <<"Failed to parse JSON output: ">> \o StrJSONDecodeError(stdout_text, r)
             \o <<". Output was: ">> \o stdout_text \o <<"...">>)))

\* lines 157-167: json.loads, the log line that takes len(planes), return;
\* a JSONDecodeError becomes an HTTPException quoting stdout_text[:200]
JsonOutcome(stdout_text, r) ==
    IF r.ok
    THEN IF HasLen(r.v) THEN Return(r.v)
         ELSE Raise(<<"object of type '", TypeName(r.v), "' has no len()">>)
    ELSE Raise(StrHTTPException(HTTPException(500,
             <<"Failed to parse JSON output: ">> \o StrJSONDecodeError(stdout_text, r)
             \o <<". Output was: ">> \o Slice(stdout_text, PrefixChars) \o <<"...">>)))

ParseJsonOutput(stdout_text) == JsonOutcome(stdout_text, Loads(stdout_text))

\* lines 168-173: "except Exception" around the block above, which also
\* catches the HTTPException raised in it
OutputError(inner) ==
    IF inner.raised
    THEN Raise(StrHTTPException(HTTPException(500,
             <<"Error processing C++ output: ">> \o inner.str)))
    ELSE inner

\* line 154: stdout.decode()
DecodedOutput(d) ==
    IF d.ok THEN ParseJsonOutput(d.text) ELSE Raise(StrUnicodeDecodeError(d))

\* lines 153-173
ProcessOutput(stdout) == OutputError(DecodedOutput(Decode(stdout)))

\* line 138: stderr.decode() if stderr else ""
DecodeStderr(stderr) ==
    IF stderr = <<>> THEN [ok |-> TRUE, text |-> <<>>, pos |-> 0] ELSE Decode(stderr)

\* AfterStderr without the check of process.returncode
AfterStderr_anycode(returncode, stdout, e) ==
    IF ~e.ok THEN Raise(StrUnicodeDecodeError(e))
    ELSE ProcessOutput(stdout)

\* lines 146-173, with stderr_output = e.text
AfterStderr(returncode, stdout, e) ==
    IF ~e.ok THEN Raise(StrUnicodeDecodeError(e))
    ELSE IF returncode # 0
         THEN Raise(StrHTTPException(HTTPException(500,
                  <<"C++ process failed with code ">> \o IntToStr(returncode)
                  \o <<": ">> \o e.text)))
    ELSE ProcessOutput(stdout)

\* lines 138-173: what follows process.communicate() inside the outer try
AfterCommunicate(returncode, stdout, stderr) ==
    AfterStderr(returncode, stdout, DecodeStderr(stderr))

\* the response_model applied to the value the handler returned
Validated(p) == IF p.ok THEN PlanesResponse(p.v) ELSE InternalServerError

\* lines 175-179: the outer "except Exception" turns whatever was raised in
\* the try block, the HTTPExceptions included, into one HTTPException 500;
\* a returned value goes through the response_model
Respond(block) ==
    IF block.raised
    THEN HTTPException(500, <<"Failed to process request: ">> \o block.str)
    ELSE Validated(AsPlaneList(block.value))

\* str(OSError) of a Popen that cannot start the executable
StrPopenError == <<"[Errno 13] Permission denied: '", EXECUTABLE_PATH, "'">>

----------------------------------------------------------------------------
(* The engine, an external program: the outputs of the stub engines the    *)
(* model runs in its place.                                                *)

RECURSIVE RenderValue(_)
RECURSIVE RenderItems(_, _)
RECURSIVE RenderMembers(_, _)

RenderItems(items, k) ==
    IF k > Len(items) THEN <<>>
    ELSE (IF k > 1 THEN <<",", " ">> ELSE <<>>)
         \o RenderValue(items[k]) \o RenderItems(items, k + 1)

RenderMembers(d, k) ==
    IF k > Len(d.keys) THEN <<>>
    ELSE (IF k > 1 THEN <<",", " ">> ELSE <<>>)
         \o <<QUOTE>> \o d.keys[k] \o <<QUOTE, ":", " ">>
         \o RenderValue(d.vals[k]) \o RenderMembers(d, k + 1)

\* the JSON text an engine writes for a value
RenderValue(v) ==
    CASE v.t = "int"   -> IntToStr(v.m)
      [] v.t = "float" -> StrFloat(v)
      [] v.t = "none"  -> <<"n", "u", "l", "l">>
      [] v.t = "str"   -> <<QUOTE>> \o v.s \o <<QUOTE>>
      [] v.t = "list"  -> <<"[">> \o RenderItems(v.items, 1) \o <<"]">>
      [] v.t = "dict"  -> <<"{">> \o RenderMembers(v, 1) \o <<"}">>

\* the bytes of a value written as one line
Written(v) == Encode(RenderValue(v) \o <<NEWLINE>>)

Vec(x, y, z) == JList(<<x, y, z>>)

\* a Plane record as an engine writes it: the six members, whole numbers
\* written without a fractional part
PlaneRecord(normal, center, basisU, basisV, distanceFromOrigin, inlierCount) ==
    JDict([f \in 1..Len(PlaneFields) |-> PlaneFields[f].key],
          <<normal, center, basisU, basisV, distanceFromOrigin, inlierCount>>)

Plane1 ==
    PlaneRecord(Vec(PyInt(0), PyInt(0), PyInt(1)),
                Vec(PyFloat(5, 1), PyInt(2), PyFloat(-125, 2)),
                Vec(PyInt(1), PyInt(0), PyInt(0)),
                Vec(PyInt(0), PyInt(1), PyInt(0)),
                PyFloat(-125, 2), PyInt(120))

Plane2 ==
    PlaneRecord(Vec(PyInt(1), PyInt(0), PyInt(0)),
                Vec(PyInt(3), PyFloat(5, 1), PyInt(0)),
                Vec(PyInt(0), PyInt(1), PyInt(0)),
                Vec(PyInt(0), PyInt(0), PyInt(1)),
                PyInt(3), PyInt(30))

\* the record without one member, with one member replaced, with a seventh
Without(rec, key) ==
    LET keep == {k \in 1..Len(rec.keys) : rec.keys[k] # key}
        ix(n) == CHOOSE k \in keep : Cardinality({l \in keep : l < k}) = n - 1
    IN  JDict([n \in 1..Cardinality(keep) |-> rec.keys[ix(n)]],
              [n \in 1..Cardinality(keep) |-> rec.vals[ix(n)]])

With(rec, key, v) == DictPut(rec.keys, rec.vals, key, v)

\* The plane lists of at most MaxRecords records, in every order
PlaneLists ==
    UNION {[1..n -> {Plane1, Plane2}] : n \in 0..MaxRecords}

\* stdout of an engine that writes a plane list
WellFormedOutputs == {Written(JList(l)) : l \in PlaneLists}

KEY_inlierCount == <<"i", "n", "l", "i", "e", "r", "C", "o", "u", "n", "t">>
KEY_distanceFromOrigin == <<"d", "i", "s", "t", "a", "n", "c", "e", "F", "r", "o", "m", "O", "r", "i", "g", "i", "n">>
KEY_id == <<"i", "d">>

NotJson == Encode(<<"n", "o", "t", " ", "j", "s", "o", "n">>)
\* a two-record list cut short three bytes before its end
Truncated ==
    LET full == Written(JList(<<Plane1, Plane2>>)) IN SubSeq(full, 1, Len(full) - 3)
SingleObject == Written(Plane1)
Scalar == Written(PyInt(42))
Null == Written(None)
ListOfNumbers == Written(JList(<<PyInt(1), PyInt(2)>>))
MissingField == Written(JList(<<Plane2, Without(Plane1, KEY_inlierCount)>>))
NonNumeric ==
    Written(JList(<<With(Plane1, KEY_distanceFromOrigin, JStr(<<"x">>))>>))
NumericString ==
    Written(JList(<<With(Plane1, KEY_inlierCount, JStr(<<"1", "2", "0">>))>>))
ExtraMember == Written(JList(<<With(Plane1, KEY_id, PyInt(7))>>))
\* an empty list followed by a byte that is not UTF-8
BadUtf8 == Encode(<<"[", "]">>) \o <<255>>
\* one two-byte character and PrefixChars - 1 ASCII ones: PrefixChars + 1
\* bytes, PrefixChars characters
NonAscii == <<195, 169>> \o [k \in 1..(PrefixChars - 1) |-> Ord("x")]

MalformedOutputs ==
    {<<>>, NotJson, Truncated, SingleObject, Scalar, Null, ListOfNumbers,
     MissingField, NonNumeric, NumericString, ExtraMember, BadUtf8, NonAscii}

Stdouts == WellFormedOutputs \cup MalformedOutputs

SingularMatrix ==
    Encode(<<"s", "i", "n", "g", "u", "l", "a", "r", " ", "m", "a", "t", "r", "i", "x">>)

\* stderr: nothing, a message, bytes that are not UTF-8
Stderrs == {<<>>, SingularMatrix, <<255, 254>>}

\* exit statuses: success, an error status, death by signal 11
ReturnCodes == {0, 2, -11}

----------------------------------------------------------------------------
(* State *)

NoRequest ==
    [width |-> 0, height |-> 0, query_params |-> {},
     values |-> BoundValues({}), body |-> <<>>]

NoChild ==
    [state |-> "none", argv |-> <<>>, stdin |-> <<>>, stdin_closed |-> FALSE,
     returncode |-> 0, stdout |-> <<>>, stderr |-> <<>>]

Init ==
    /\ exe_exists \in BOOLEAN
    /\ pc = [r \in Reqs |-> "idle"]
    /\ req = [r \in Reqs |-> NoRequest]
    /\ client = [r \in Reqs |-> "connected"]
    /\ loop = 0
    /\ child = [r \in Reqs |-> NoChild]
    /\ spawned = [r \in Reqs |-> 0]
    /\ response = [r \in Reqs |-> <<>>]
    /\ probes = 0

\* the request body of L bytes: zeros (fill = 0) or a pattern of distinct
\* neighbouring bytes
Payload(L, fill) == [k \in 1..L |-> (fill * k * 37) % 256]

----------------------------------------------------------------------------
(* Actions *)

\* lines 50-81: FastAPI has bound the query string; the handler logs, fills
\* param_provided and suspends in "await request.body()"
Receive(r, width, height, query_params, body) ==
    /\ pc[r] = "idle"
    /\ loop = 0
    /\ req' = [req EXCEPT ![r] =
                 [width |-> width, height |-> height, query_params |-> query_params,
                  values |-> BoundValues(query_params), body |-> body]]
    /\ pc' = [pc EXCEPT ![r] = "request_body"]
    /\ UNCHANGED <<exe_exists, client, loop, child, spawned, response, probes>>

\* the response of a handler that ends before any process is started
\* (lines 82-99), or NoResponse when it goes on to the try block
NoResponse == <<>>

\* EarlyResponse without the os.path.exists check
EarlyResponse_m(rq, exists) ==
    IF Len(rq.body) # expected_bytes(rq.width, rq.height)
    THEN <<SizeMismatch(Len(rq.body), expected_bytes(rq.width, rq.height))>>
    ELSE NoResponse

EarlyResponse(rq, exists) ==
    LET data_size == Len(rq.body)
        expected == expected_bytes(rq.width, rq.height)
    IN  IF data_size # expected THEN <<SizeMismatch(data_size, expected)>>
        ELSE IF ~exists THEN <<ExecutableNotFound>>
        ELSE NoResponse

\* lines 82-136: the body has arrived and the handler runs on, without
\* suspending, to its end or into process.communicate(); popen_ok tells
\* whether the operating system starts the executable
Resume(r, popen_ok) ==
    /\ pc[r] = "request_body"
    /\ loop = 0
    /\ LET rq == req[r]
           early == EarlyResponse(rq, exe_exists)
           command == Command(rq.width, rq.height,
                              param_provided(rq.query_params), rq.values)
       IN  IF early # NoResponse
           THEN /\ response' = [response EXCEPT ![r] = @ \o early]
                /\ pc' = [pc EXCEPT ![r] = "done"]
                /\ UNCHANGED <<child, spawned, loop>>
           ELSE IF ~popen_ok
           THEN /\ spawned' = [spawned EXCEPT ![r] = @ + 1]
                /\ response' = [response EXCEPT ![r] =
                                  Append(@, Respond(Raise(StrPopenError)))]
                /\ pc' = [pc EXCEPT ![r] = "done"]
                /\ UNCHANGED <<child, loop>>
           ELSE /\ spawned' = [spawned EXCEPT ![r] = @ + 1]
                /\ child' = [child EXCEPT ![r] =
                               [NoChild EXCEPT !.state = "running", !.argv = command]]
                /\ pc' = [pc EXCEPT ![r] = "communicate"]
                /\ loop' = r
                /\ UNCHANGED response
    /\ UNCHANGED <<exe_exists, req, client, probes>>

\* WriteStdin that writes the input and leaves the pipe open
WriteStdin_open(r) ==
    /\ pc[r] = "communicate"
    /\ child[r].state = "running"
    /\ ~child[r].stdin_closed
    /\ child' = [child EXCEPT ![r].stdin = req[r].body]
    /\ UNCHANGED <<exe_exists, pc, req, client, loop, spawned, response, probes>>

\* line 136, communicate(input=binary_data): the input is written to the
\* child's stdin and the pipe is closed
WriteStdin(r) ==
    /\ pc[r] = "communicate"
    /\ child[r].state = "running"
    /\ ~child[r].stdin_closed
    /\ child' = [child EXCEPT ![r].stdin = req[r].body, ![r].stdin_closed = TRUE]
    /\ UNCHANGED <<exe_exists, pc, req, client, loop, spawned, response, probes>>

\* the engine ends, when it chooses to, leaving its exit status and what it
\* wrote to stdout and stderr
ChildExit(r, returncode, stdout, stderr) ==
    /\ child[r].state = "running"
    /\ child' = [child EXCEPT ![r].state = "exited", ![r].returncode = returncode,
                              ![r].stdout = stdout, ![r].stderr = stderr]
    /\ UNCHANGED <<exe_exists, pc, req, client, loop, spawned, response, probes>>

\* CommunicateReturn with a bounded wait: communicate(timeout=...) gives up
\* on a child that is still running, which is killed
CommunicateReturn_timeout(r) ==
    /\ pc[r] = "communicate"
    /\ child[r].state \in {"running", "exited"}
    /\ child' = [child EXCEPT ![r].state = "reaped", ![r].stdin_closed = TRUE]
    /\ response' = [response EXCEPT ![r] =
                      Append(@, IF child[r].state = "running"
                                THEN Respond(Raise(<<"Command timed out">>))
                                ELSE Respond(AfterCommunicate(child[r].returncode,
                                                              child[r].stdout,
                                                              child[r].stderr)))]
    /\ pc' = [pc EXCEPT ![r] = "done"]
    /\ loop' = 0
    /\ UNCHANGED <<exe_exists, req, client, spawned, probes>>

\* CommunicateReturn that starts the engine a second time after a failed run
CommunicateReturn_retry(r) ==
    /\ pc[r] = "communicate"
    /\ child[r].state = "exited"
    /\ IF child[r].returncode # 0 /\ spawned[r] < 2
       THEN /\ child' = [child EXCEPT ![r] =
                           [NoChild EXCEPT !.state = "running", !.argv = child[r].argv]]
            /\ spawned' = [spawned EXCEPT ![r] = @ + 1]
            /\ UNCHANGED <<response, pc, loop>>
       ELSE /\ child' = [child EXCEPT ![r].state = "reaped", ![r].stdin_closed = TRUE]
            /\ response' = [response EXCEPT ![r] =
                              Append(@, Respond(AfterCommunicate(child[r].returncode,
                                                                 child[r].stdout,
                                                                 child[r].stderr)))]
            /\ pc' = [pc EXCEPT ![r] = "done"]
            /\ loop' = 0
            /\ UNCHANGED spawned
    /\ UNCHANGED <<exe_exists, req, client, probes>>

\* lines 136-179: communicate() returns once the child has ended; the rest
\* of the handler runs and FastAPI sends the response
CommunicateReturn(r) ==
    /\ pc[r] = "communicate"
    /\ child[r].state = "exited"
    /\ child' = [child EXCEPT ![r].state = "reaped", ![r].stdin_closed = TRUE]
    /\ response' = [response EXCEPT ![r] =
                      Append(@, Respond(AfterCommunicate(child[r].returncode,
                                                         child[r].stdout,
                                                         child[r].stderr)))]
    /\ pc' = [pc EXCEPT ![r] = "done"]
    /\ loop' = 0
    /\ UNCHANGED <<exe_exists, req, client, spawned, probes>>

\* the calling client closes its connection before it has a response
ClientDisconnect(r) ==
    /\ pc[r] \in {"request_body", "communicate"}
    /\ client[r] = "connected"
    /\ client' = [client EXCEPT ![r] = "gone"]
    /\ UNCHANGED <<exe_exists, pc, req, loop, child, spawned, response, probes>>

\* line 81: request.body() raises ClientDisconnect when the client left
\* before the body was complete; the handler ends without a response
BodyAborted(r) ==
    /\ pc[r] = "request_body"
    /\ client[r] = "gone"
    /\ loop = 0
    /\ pc' = [pc EXCEPT ![r] = "aborted"]
    /\ UNCHANGED <<exe_exists, req, client, loop, child, spawned, response, probes>>

\* lines 45-47: GET /
read_root ==
    /\ loop = 0
    /\ probes < MaxProbes
    /\ probes' = probes + 1
    /\ UNCHANGED <<exe_exists, pc, req, client, loop, child, spawned, response>>

----------------------------------------------------------------------------
(* Specifications *)

Dims == (-1)..MaxDim

\* the body lengths tried for a grid: the expected one, off by one, none
BodyLengths(width, height) ==
    {L \in {expected_bytes(width, height) - 1, expected_bytes(width, height),
            expected_bytes(width, height) + 1, 0} : L >= 0}

\* Spec: one request with every grid, body length and subset of the tuning
\* parameters; the engine is one of three stubs
NextRequests ==
    \/ \E width \in Dims, height \in Dims, fill \in {0, 1} :
         \E L \in BodyLengths(width, height), query_params \in SUBSET OptNameSet :
            Receive(1, width, height, query_params, Payload(L, fill))
    \/ \E popen_ok \in BOOLEAN : Resume(1, popen_ok)
    \/ WriteStdin(1)
    \/ \E out \in {<<Written(JList(<<Plane1>>)), <<>>, 0>>,
                   <<NotJson, <<>>, 0>>,
                   <<(<<>>), SingularMatrix, 2>>} :
         ChildExit(1, out[3], out[1], out[2])
    \/ CommunicateReturn(1)

Spec == Init /\ [][NextRequests]_vars

\* the requests of the other specifications
FewRequests ==
    {[width |-> 1, height |-> 1, query_params |-> {}, L |-> 12],
     [width |-> 1, height |-> 1, query_params |-> {"outlier_ratio"}, L |-> 11],
     [width |-> 2, height |-> 1, query_params |-> {"max_planes"}, L |-> 24]}

\* SpecEngine: one request, every stub engine
NextEngine ==
    \/ \E q \in FewRequests :
         Receive(1, q.width, q.height, q.query_params, Payload(q.L, 1))
    \/ \E popen_ok \in BOOLEAN : Resume(1, popen_ok)
    \/ WriteStdin(1)
    \/ \E returncode \in ReturnCodes, stdout \in Stdouts, stderr \in Stderrs :
         ChildExit(1, returncode, stdout, stderr)
    \/ CommunicateReturn(1)

SpecEngine == Init /\ [][NextEngine]_vars

\* SpecServer: NumReq concurrent requests, clients that leave, and the probe
NextServer ==
    \/ \E r \in Reqs, q \in FewRequests :
         Receive(r, q.width, q.height, q.query_params, Payload(q.L, 1))
    \/ \E r \in Reqs, popen_ok \in BOOLEAN : Resume(r, popen_ok)
    \/ \E r \in Reqs : WriteStdin(r)
    \/ \E r \in Reqs :
         \E out \in {<<Written(JList(<<Plane1>>)), <<>>, 0>>,
                     <<(<<>>), SingularMatrix, 2>>} :
            ChildExit(r, out[3], out[1], out[2])
    \/ \E r \in Reqs : CommunicateReturn(r)
    \/ \E r \in Reqs : ClientDisconnect(r)
    \/ \E r \in Reqs : BodyAborted(r)
    \/ read_root

SpecServer == Init /\ [][NextServer]_vars

\* SpecLive: concurrent requests under the scheduling that termination rests
\* on: the event loop runs a coroutine that can run (the body arrives, the
\* blocking call returns), communicate() writes, and every started engine
\* exits
LiveRequests ==
    {[width |-> 1, height |-> 1, query_params |-> {}, L |-> 12],
     [width |-> 1, height |-> 1, query_params |-> {"outlier_ratio"}, L |-> 11]}

\* what the engine writes for one plane
OnePlaneOutput == Written(JList(<<Plane1>>))

\* the engine of request r exits: with a plane list, or with status 2
EngineExits(r) ==
    \/ ChildExit(r, 0, OnePlaneOutput, <<>>)
    \/ ChildExit(r, 2, <<>>, SingularMatrix)

BodyArrives(r) == \E popen_ok \in BOOLEAN : Resume(r, popen_ok)

\* the step CommunicateReturn(r) as pc shows it: the only step that takes
\* request r from "communicate" to "done"; it can be taken exactly when
\* CommunicateReturn(r) can
Returns(r) ==
    /\ pc[r] = "communicate"
    /\ child[r].state = "exited"
    /\ pc' = [pc EXCEPT ![r] = "done"]

NextLive ==
    \/ \E r \in Reqs, q \in LiveRequests :
         Receive(r, q.width, q.height, q.query_params, Payload(q.L, 1))
    \/ \E r \in Reqs : BodyArrives(r)
    \/ \E r \in Reqs : WriteStdin(r)
    \/ \E r \in Reqs : EngineExits(r)
    \/ \E r \in Reqs : CommunicateReturn(r)
    \/ \E r \in Reqs : ClientDisconnect(r)
    \/ \E r \in Reqs : BodyAborted(r)

Fairness ==
    \A r \in Reqs :
        /\ WF_vars(BodyArrives(r))
        /\ WF_vars(WriteStdin(r))
        /\ WF_vars(EngineExits(r))
        /\ WF_pc(Returns(r))

SpecLive == Init /\ [][NextLive]_vars /\ Fairness

----------------------------------------------------------------------------
(* Properties.  Request 1 is the request of Spec and SpecEngine.           *)

Responded(r) == pc[r] = "done"
TheResponse(r) == response[r][1]
SizeValid(r) == Len(req[r].body) = 12 * req[r].width * req[r].height
Spawned(r) == child[r].state # "none"
Reaped(r) == child[r].state = "reaped"

\* the engine's primary output as text, when it is text
StdoutText(r) == Decode(child[r].stdout).text

\* C1: for a request with width > 0 and height > 0 and a body of L bytes, the
\* payload check rejects with status 400 exactly when L # 12 * width * height;
\* the 400 detail carries L and 12 * width * height, and no process is started,
\* whether or not the executable exists.
C1_PayloadCheck ==
    (Responded(1) \/ Spawned(1)) /\ req[1].width > 0 /\ req[1].height > 0 =>
        LET L == Len(req[1].body)
            expected == 12 * req[1].width * req[1].height
        IN  /\ (L # expected) <=>
                  (Responded(1) /\ TheResponse(1).status_code = 400)
            /\ L # expected =>
                  /\ TheResponse(1).kind = "error"
                  /\ Contains(TheResponse(1).detail, IntToStr(L))
                  /\ Contains(TheResponse(1).detail, IntToStr(expected))
                  /\ spawned[1] = 0
                  /\ ~Spawned(1)

\* Scenario B scaled to the model: a 2 x 2 grid, one byte short, no executable
C1_Witness ==
    /\ Responded(1) /\ req[1].width = 2 /\ req[1].height = 2
    /\ Len(req[1].body) = 47 /\ ~exe_exists
    /\ TheResponse(1).status_code = 400 /\ spawned[1] = 0

\* the flags of the engine's command line, in the order of OptNames
CanonicalFlags == <<"--min-normal-diff", "--max-dist", "--outlier-ratio",
                    "--min-num-points", "--nr-neighbors", "--max-planes">>

FlagIndex(arg) ==
    IF \E k \in 1..Len(CanonicalFlags) : arg = <<CanonicalFlags[k]>>
    THEN CHOOSE k \in 1..Len(CanonicalFlags) : arg = <<CanonicalFlags[k]>>
    ELSE 0

\* C2: the argument vector of a started engine is the executable, str(width),
\* str(height), then one flag/value pair for each tuning parameter in the
\* query string and none for any other, in the canonical order.
C2_ArgumentVector ==
    Spawned(1) =>
        LET argv == child[1].argv
            supplied == req[1].query_params
            n == Cardinality(supplied)
        IN  /\ Len(argv) = 3 + 2 * n
            /\ argv[1] = <<EXECUTABLE_PATH>>
            /\ argv[2] = IntToStr(req[1].width)
            /\ argv[3] = IntToStr(req[1].height)
            /\ \A k \in 1..Len(OptNames) :
                 (OptNames[k] \in supplied) <=>
                    (\E i \in 1..n : argv[2 + 2 * i] = <<CanonicalFlags[k]>>)
            /\ \A i \in 1..n :
                 /\ FlagIndex(argv[2 + 2 * i]) # 0
                 /\ argv[3 + 2 * i] = Str(SentValue(OptNames[FlagIndex(argv[2 + 2 * i])]))
            /\ \A i \in 1..n, j \in 1..n :
                 i < j => FlagIndex(argv[2 + 2 * i]) < FlagIndex(argv[2 + 2 * j])

\* Scenario E: only outlier_ratio=0.5 is supplied
C2_Witness ==
    /\ Spawned(1)
    /\ req[1].query_params = {"outlier_ratio"}
    /\ child[1].argv = << <<EXECUTABLE_PATH>>, IntToStr(req[1].width),
                          IntToStr(req[1].height), <<"--outlier-ratio">>,
                          <<"0", ".", "5">> >>

\* C3: after a child that exited with a non-zero status the response is a 500
\* whose detail contains the exit code and the text of stderr, and no plane list.
C3_NonZeroExit ==
    Responded(1) /\ Reaped(1) /\ child[1].returncode # 0 =>
        /\ TheResponse(1).status_code = 500
        /\ TheResponse(1).planes = <<>>
        /\ Contains(TheResponse(1).detail, IntToStr(child[1].returncode))
        /\ DecodeStderr(child[1].stderr).ok =>
              Contains(TheResponse(1).detail, DecodeStderr(child[1].stderr).text)

\* the primary output of request r is text that does not decode to a valid
\* list of Plane records
DecodeFailure(r) ==
    /\ Decode(child[r].stdout).ok
    /\ \/ ~Loads(StdoutText(r)).ok
       \/ ~AsPlaneList(Loads(StdoutText(r)).v).ok

\* only the primary output is at fault: exit status 0, stderr is text
OnlyOutputAtFault(r) ==
    /\ Responded(r) /\ Reaped(r) /\ child[r].returncode = 0
    /\ DecodeStderr(child[r].stderr).ok

\* C4: after exit status 0, every decoding failure of the primary output (not
\* JSON, not a list of records, a missing field, a non-numeric value) gives a
\* 500 whose detail carries the parse error and a prefix of the raw output.
C4_DecodeFailures ==
    OnlyOutputAtFault(1) /\ DecodeFailure(1) /\ StdoutText(1) # <<>> =>
        /\ TheResponse(1).status_code = 500
        /\ TheResponse(1).kind = "error"
        /\ Contains(TheResponse(1).detail, Slice(StdoutText(1), PrefixChars))

\* C5: an error response never quotes more than the first PrefixChars
\* characters of the primary output: for an output longer than that, the
\* detail does not even contain its first PrefixChars + 1 characters.
C5_BoundedPrefix ==
    /\ Responded(1) /\ Reaped(1) /\ Decode(child[1].stdout).ok
    /\ Len(StdoutText(1)) > PrefixChars
    => ~Contains(TheResponse(1).detail, Slice(StdoutText(1), PrefixChars + 1))

\* an output of more than PrefixChars characters that is not JSON, quoted
\* up to its character PrefixChars
C5_Witness ==
    /\ OnlyOutputAtFault(1)
    /\ child[1].stdout = Truncated
    /\ Len(StdoutText(1)) > PrefixChars
    /\ TheResponse(1).status_code = 500
    /\ Contains(TheResponse(1).detail, Slice(StdoutText(1), PrefixChars) \o <<"...">>)

\* C6: a size-valid request that finds no executable is answered 500 and no
\* process is started or attempted.
C6_EngineNotFound ==
    (Responded(1) \/ Spawned(1)) /\ SizeValid(1) /\ ~exe_exists =>
        /\ Responded(1)
        /\ Len(response[1]) = 1
        /\ TheResponse(1).status_code = 500
        /\ TheResponse(1).kind = "error"
        /\ spawned[1] = 0
        /\ ~Spawned(1)

C6_Witness ==
    /\ Responded(1) /\ SizeValid(1) /\ ~exe_exists
    /\ TheResponse(1) = ExecutableNotFound /\ spawned[1] = 0

\* a plane record as Plane declares it: exactly the six fields, the vectors
\* lists of floats, the distance a float, the count an int
IsFloat(x) == x.t = "float"
IsFloatVector(v) == \A k \in 1..Len(v) : IsFloat(v[k])

WellFormedPlane(p) ==
    /\ DOMAIN p = {"normal", "center", "basisU", "basisV",
                   "distanceFromOrigin", "inlierCount"}
    /\ IsFloatVector(p.normal) /\ IsFloatVector(p.center)
    /\ IsFloatVector(p.basisU) /\ IsFloatVector(p.basisV)
    /\ IsFloat(p.distanceFromOrigin)
    /\ p.inlierCount.t = "int"

\* a step of request r failed: the size check, the executable, the start of
\* the process, its exit status, its diagnostics, the decoding of its output
Failed(r) ==
    \/ ~SizeValid(r)
    \/ ~exe_exists
    \/ ~Reaped(r)
    \/ child[r].returncode # 0
    \/ ~DecodeStderr(child[r].stderr).ok
    \/ ~Decode(child[r].stdout).ok
    \/ DecodeFailure(r)

SameNumber(a, b) == a.m * Pow10(b.e) = b.m * Pow10(a.e)

SameVector(items, v) ==
    /\ Len(items) = Len(v)
    /\ \A k \in 1..Len(v) : SameNumber(items[k], v[k])

\* the response plane p is the record rec the engine wrote, field for field
SamePlane(rec, p) ==
    /\ SameVector(rec.vals[1].items, p.normal)
    /\ SameVector(rec.vals[2].items, p.center)
    /\ SameVector(rec.vals[3].items, p.basisU)
    /\ SameVector(rec.vals[4].items, p.basisV)
    /\ SameNumber(rec.vals[5], p.distanceFromOrigin)
    /\ SameNumber(rec.vals[6], p.inlierCount)

RoundTrip(l, e) ==
    /\ e.kind = "planes" /\ e.status_code = 200
    /\ Len(e.planes) = Len(l)
    /\ \A k \in 1..Len(l) : SamePlane(l[k], e.planes[k])

\* C8: when the engine exits 0 and has written a well-formed plane list, the
\* response is 200 and its planes are that list, field for field, in order.
C8_RoundTrip ==
    \A l \in PlaneLists :
        Responded(1) /\ Reaped(1) /\ child[1].returncode = 0
        /\ child[1].stdout = Written(JList(l))
        => RoundTrip(l, TheResponse(1))

\* C9: no child process is alive while the client of its request is gone.
C9_NoOrphanedChild ==
    \A r \in Reqs : ~(child[r].state = "running" /\ client[r] = "gone")

\* C10: while a request waits for its engine, the probe and the other
\* requests can take their next step.
C10_NoBlocking ==
    \A r \in Reqs :
        pc[r] = "communicate" /\ child[r].state = "running" =>
            /\ probes < MaxProbes => ENABLED read_root
            /\ \A o \in Reqs \ {r} :
                 pc[o] = "request_body" => ENABLED Resume(o, TRUE)

\* the engines of r and o did the same: both started or both not, and the
\* same exit status and output
SameEngineRun(r, o) ==
    /\ spawned[r] = spawned[o]
    /\ child[r].state = child[o].state
    /\ child[r].returncode = child[o].returncode
    /\ child[r].stdout = child[o].stdout
    /\ child[r].stderr = child[o].stderr

StepOrder ==
    {<<"idle", "request_body">>, <<"request_body", "communicate">>,
     <<"request_body", "done">>, <<"communicate", "done">>}

\* a response made from the primary output: the plane list, or one of the
\* errors of the block that decodes it
FromOutput(e) ==
    \/ e.kind \in {"planes", "server_error"}
    \/ Contains(e.detail, <<"Error processing C++ output: ">>)

\* C12: the steps of a request follow the order received, validated,
\* invoked, decoded, responded: a process is started only by a request whose
\* size check has passed, a response made from the primary output only after
\* the child has exited with status 0, and nothing of the request changes
\* once it has its response.
C12_Sequential ==
    [][/\ pc'[1] # pc[1] => <<pc[1], pc'[1]>> \in StepOrder
       /\ spawned'[1] # spawned[1] \/ (~Spawned(1) /\ Spawned(1)') =>
             /\ pc[1] = "request_body"
             /\ SizeValid(1)
             /\ response'[1] = <<>> \/ ~Spawned(1)'
       /\ response'[1] # response[1] /\ FromOutput(response'[1][1]) =>
             /\ pc[1] = "communicate"
             /\ child[1].state = "exited"
             /\ child[1].returncode = 0
       /\ Responded(1) =>
             UNCHANGED <<pc[1], req[1], child[1], spawned[1], response[1]>>
      ]_vars

\* a request that went through every step: valid size, engine run to exit
\* status 0, output decoded into the plane list of the response
C12_Witness ==
    /\ Responded(1) /\ SizeValid(1) /\ Reaped(1) /\ child[1].returncode = 0
    /\ Len(response[1]) = 1 /\ FromOutput(TheResponse(1))
    /\ TheResponse(1).status_code = 200

\* the engine run of request r failed: the process did not start, or it
\* exited with a non-zero status, or its output did not give a plane list
FailedRun(r) ==
    /\ Responded(r) /\ spawned[r] > 0
    /\ TheResponse(r).status_code = 500

\* C13: a request makes at most one Popen call, failed runs included, and a
\* started process is the one of its own request: started with that request's
\* command, and the source of that request's response.
C13_OneChildPerRequest ==
    \A r \in Reqs :
        /\ spawned[r] <= 1
        /\ Spawned(r) =>
              /\ spawned[r] = 1
              /\ child[r].argv = Command(req[r].width, req[r].height,
                                         param_provided(req[r].query_params),
                                         req[r].values)
        /\ Responded(r) /\ Reaped(r) =>
              response[r] = <<Respond(AfterCommunicate(child[r].returncode,
                                                       child[r].stdout,
                                                       child[r].stderr))>>
        /\ FailedRun(r) => spawned[r] = 1 /\ child[r].state \in {"none", "reaped"}

\* one request whose engine exited with status 2 and one whose engine could
\* not be started: each has its error and made one Popen call
C13_Witness ==
    /\ FailedRun(1) /\ Reaped(1) /\ child[1].returncode = 2
    /\ FailedRun(2) /\ ~Spawned(2)
    /\ spawned[1] = 1 /\ spawned[2] = 1

\* C14 as stated: the input stream of every child that was started and
\* waited for has received exactly the request body and has been closed.
C14_WholeBodyWritten ==
    Reaped(1) => child[1].stdin = req[1].body /\ child[1].stdin_closed

IsPrefix(s, t) == Len(s) <= Len(t) /\ s = Slice(t, Len(s))

\* C14, amended: what has been written to a child's input is a prefix of the
\* size-valid request body, and the whole body, followed by the close of the
\* stream, whenever the child was still running when communicate() wrote; the
\* write and the close need no exit of the child, and the wait for the exit
\* ends with the stream closed.
C14_InputStream ==
    Spawned(1) =>
        /\ SizeValid(1)
        /\ IsPrefix(child[1].stdin, req[1].body)
        /\ child[1].stdin_closed /\ child[1].state \in {"running", "exited"} =>
              child[1].stdin = req[1].body
        /\ child[1].stdin # <<>> => child[1].stdin = req[1].body /\ child[1].stdin_closed
        /\ child[1].state = "running" /\ ~child[1].stdin_closed => ENABLED WriteStdin(1)
        /\ Reaped(1) => child[1].stdin_closed

\* Scenario A: a 2 x 2 grid, 48 bytes, no optional parameters; the child is
\* still running, has the 48 bytes and the end of input
C14_Witness ==
    /\ req[1].width = 2 /\ req[1].height = 2 /\ req[1].query_params = {}
    /\ child[1].state = "running" /\ pc[1] = "communicate"
    /\ child[1].argv = << <<EXECUTABLE_PATH>>, <<"2">>, <<"2">> >>
    /\ Len(child[1].stdin) = 48 /\ child[1].stdin = req[1].body
    /\ child[1].stdin_closed

\* C15: a process is started, or its start attempted, only for a grid whose
\* width and height are both positive, and these are its two positional
\* arguments.
C15_PositiveDimensions ==
    Spawned(1) \/ spawned[1] > 0 =>
        /\ req[1].width > 0 /\ req[1].height > 0
        /\ Spawned(1) => /\ child[1].argv[2] = IntToStr(req[1].width)
                         /\ child[1].argv[3] = IntToStr(req[1].height)

\* the response request r would have had with nothing on stderr
WithEmptyStderr(r) ==
    Respond(AfterCommunicate(child[r].returncode, child[r].stdout, <<>>))

\* C16: stderr does not decide the outcome: the status of the response is
\* the one the same exit status and primary output give with an empty stderr,
\* and after exit status 0 and a well-formed plane list on stdout the response
\* is 200 with that list, whatever bytes are on stderr.
C16_DiagnosticsNeverDecide ==
    Responded(1) /\ Reaped(1) =>
        /\ TheResponse(1).status_code = WithEmptyStderr(1).status_code
        /\ TheResponse(1).kind = WithEmptyStderr(1).kind
        /\ child[1].returncode = 0 /\ child[1].stdout \in WellFormedOutputs =>
              /\ TheResponse(1).status_code = 200
              /\ TheResponse(1) = WithEmptyStderr(1)

\* C17: when every started engine exits, a request whose body has arrived
\* gets its response: a request in communicate() is eventually answered, and
\* a request waiting for its body is eventually answered unless its client
\* left first; and there is no timeout: while the child runs, the request
\* stays in communicate().
C17_Termination ==
    /\ \A r \in Reqs :
         /\ (pc[r] = "communicate") ~> (Responded(r) /\ Len(response[r]) = 1)
         /\ (pc[r] = "request_body") ~>
               (\/ Responded(r) /\ Len(response[r]) = 1
                \/ pc[r] = "aborted" /\ client[r] = "gone")
    /\ [][\A r \in Reqs :
             pc[r] = "communicate" /\ child[r].state = "running" =>
                /\ pc'[r] = "communicate" /\ response'[r] = <<>>
                /\ child'[r].state \in {"running", "exited"}
         ]_vars

\* both requests answered, the second after it had to wait for the engine
\* of the first
C17_Witness ==
    /\ \A r \in Reqs : Responded(r) /\ Len(response[r]) = 1
    /\ Reaped(1) /\ Reaped(2)
    /\ child[1].returncode = 2 /\ child[2].returncode = 0

====
